---- MODULE Spec2Model ----
(***************************************************************************)
(* A model of the internship crate.                                        *)
(*                                                                         *)
(* Two layers are modelled.                                                *)
(*  - src/lib.rs: Intern<T>, a handle around Rc<T> whose buffers are kept  *)
(*    in one thread-local HashSet<Rc<T>> per content type T.  The heap is  *)
(*    a map from addresses to reference-counted buffers; a handle holds an *)
(*    address.                                                             *)
(*  - src/istr.rs, src/ibytes.rs, src/icstr.rs: the facades IStr, IBytes   *)
(*    and ICStr around `handle::Handle` (inline or pooled bytes).          *)
(***************************************************************************)
EXTENDS Integers, Sequences, FiniteSets, Bags, TLC

\* ------------------------------------------------------------------ bounds
\* Live Intern<T> handles the program holds at one time.
MaxHandles == 3
\* Heap addresses an Rc<T> allocation can be placed at.
MaxAddr == 3
\* Rc<T> values the caller holds outside any Intern at one time.
MaxExt == 1
\* Bytes in a text built by concatenation.
MaxStrLen == 2

Addr == 1..MaxAddr

\* ----------------------------------------------------- content types (lib.rs)
\* allow_intern!{str}, allow_intern!{[u8]}, and a user type made internable
\* with allow_intern!(Dummy) as in the crate's tests.
Types == {"str", "bytes", "Dummy"}

\* #[derive(Default)] on Intern<T> adds the bound T: Default; str and [u8]
\* are unsized and have no Default, a user struct may derive it.
HasDefault(t) == t = "Dummy"

\* The type of the Rc<T> values the caller builds itself.
RcTypes == {"Dummy"}

\* T::default() of the user struct: Dummy(0), written as its field list.
DefaultValue(t) == <<0>>

\* The contents the program interns: text and bytes (bit-identical across the
\* two types), Dummy(0) and Dummy(7).
Values(t) == IF t = "Dummy" THEN {<<0>>, <<7>>} ELSE {<<>>, <<97>>}

\* ------------------------------------------------------------------- state
VARIABLES
    heap,   \* Addr -> the Rc allocation there: strong count, value, type
    pool,   \* Types -> the addresses held by that type's thread-local HashSet
    hs,     \* the bag of live Intern<T> values the program holds
    ext,    \* addresses of Rc<T> values the caller holds outside any Intern
    last,   \* the Intern<T> operation that produced this state
    tls,    \* Types -> whether that type's thread-local POOL still exists
    panicked, \* a panic was raised (in a destructor at thread exit: an abort)
    \* the facades IStr, IBytes, ICStr over handle::Handle
    bufs,   \* Addr -> the shared buffer there: holder count and bytes
    hpool,  \* Kinds -> the addresses held by that content type's pool
    fs,     \* the bag of live facade values the program holds
    flast   \* the facade operation that produced this state

ivars == <<heap, pool, hs, ext, last, tls, panicked>>
fvars == <<bufs, hpool, fs, flast>>
vars == <<heap, pool, hs, ext, last, tls, panicked, bufs, hpool, fs, flast>>

Free == [strong |-> 0, value |-> <<>>, ty |-> "none"]

\* An Intern<T>: its type, the address its Rc points to, and (for the checks
\* only) the content it was built from.
Handle(t, p, x) == [ty |-> t, ptr |-> p, src |-> x]

Live == BagToSet(hs)
Room == BagCardinality(hs) < MaxHandles
FreeAddr == {a \in Addr : heap[a] = Free}
Add(h) == hs (+) SetToBag({h})
Remove(h) == hs (-) SetToBag({h})

Op(name, t, p) == [op |-> name, ty |-> t, ptr |-> p]

\* The thread is running its program: no thread-local POOL has been destroyed
\* yet and nothing has panicked.
Running == (\A t \in Types : tls[t] = "alive") /\ ~panicked

\* ------------------------------------------------------------- Rc<T> (std)
\* Rc::strong_count
StrongCount(h, a) == h[a].strong

\* Rc::clone: one more strong reference to the allocation at a.
RcClone(h, a) == [h EXCEPT ![a].strong = @ + 1]

\* drop of one Rc: one strong reference fewer; the allocation is freed at 0.
RcRelease(h, a) == IF h[a].strong <= 1 THEN [h EXCEPT ![a] = Free]
                   ELSE [h EXCEPT ![a].strong = @ - 1]

RECURSIVE RcReleaseAll(_, _)
RcReleaseAll(h, S) == IF S = {} THEN h
                      ELSE LET a == CHOOSE a \in S : TRUE
                           IN RcReleaseAll(RcRelease(h, a), S \ {a})

\* ------------------------------------------------ HashSet<Rc<T>> (the pool)
\* HashSet::get(content.borrow()): Rc<T> hashes and compares by value, so the
\* lookup is by content.
\* (mutation) a lookup that never finds the cached entry.
PoolGetMiss(h, p, t, x) == {}

\* (mutation) a lookup that takes any entry of the pool, whatever its content.
PoolGetAny(h, p, t, x) == p[t]

PoolGet(h, p, t, x) == {e \in p[t] : h[e].value = x}

\* ---------------------------------------------------------------- Intern<T>
\* Deref / AsRef
Deref(h) == heap[h.ptr].value

\* PartialEq: Rc::ptr_eq
Eq(a, b) == a.ptr = b.ptr

\* Hash: the address of the buffer is fed to the hasher; the hasher is a fixed
\* function of the words it is fed (here a multiplicative hash of 16 bits).
Hash(h) == (h.ptr * 40503) % 65536

\* Ord for the contents: str and [u8] compare byte by byte, a shorter prefix
\* first; the derived Ord of a user struct compares its fields in order.
RECURSIVE LexCmp(_, _)
LexCmp(x, y) ==
    IF x = <<>> /\ y = <<>> THEN "Equal"
    ELSE IF x = <<>> THEN "Less"
    ELSE IF y = <<>> THEN "Greater"
    ELSE IF Head(x) < Head(y) THEN "Less"
    ELSE IF Head(x) > Head(y) THEN "Greater"
    ELSE LexCmp(Tail(x), Tail(y))

\* #[derive(PartialOrd, Ord)] on Intern<T>(Rc<T>): the one field is compared,
\* and Rc<T> orders by the value it points to.
Cmp(a, b) == LexCmp(heap[a.ptr].value, heap[b.ptr].value)

InternInit ==
    /\ heap = [a \in Addr |-> Free]
    /\ pool = [t \in Types |-> {}]
    /\ hs = EmptyBag
    /\ ext = {}
    /\ last = Op("init", "none", 0)
    /\ tls = [t \in Types |-> "alive"]
    /\ panicked = FALSE

\* Intern::new(content) (also intern() and From::from) with content a borrowed
\* or owned value: content.into() allocates a fresh Rc only on a miss.
New(t, x) ==
    /\ Room
    /\ LET cached == PoolGet(heap, pool, t, x)
       IN IF cached # {}
          THEN LET e == CHOOSE e \in cached : TRUE
               IN /\ heap' = RcClone(heap, e)
                  /\ pool' = pool
                  /\ hs' = Add(Handle(t, e, x))
                  /\ last' = Op("new_hit", t, e)
          ELSE \E a \in FreeAddr :
                  /\ heap' = [heap EXCEPT ![a] = [strong |-> 2, value |-> x, ty |-> t]]
                  /\ pool' = [pool EXCEPT ![t] = @ \cup {a}]
                  /\ hs' = Add(Handle(t, a, x))
                  /\ last' = Op("new_miss", t, a)
    /\ ext' = ext
    /\ Running
    /\ UNCHANGED <<tls, panicked>>
    /\ UNCHANGED fvars

\* Intern::new(Rc::clone(&r)) with r an Rc<T> the caller holds: U = Rc<T>
\* satisfies Into<Rc<T>> + Borrow<T>, and content.into() is r's own allocation.
NewFromRc(a) ==
    /\ a \in ext
    /\ Room
    /\ LET t == heap[a].ty
           x == heap[a].value
           cached == PoolGet(heap, pool, t, x)
       IN IF cached # {}
          THEN LET e == CHOOSE e \in cached : TRUE
               IN \* the argument (one more reference to a) is dropped again
                  /\ heap' = RcClone(heap, e)
                  /\ pool' = pool
                  /\ hs' = Add(Handle(t, e, x))
                  /\ last' = Op("newrc_hit", t, e)
          ELSE \* value is the argument; the pool takes a clone of it
               /\ heap' = RcClone(RcClone(heap, a), a)
               /\ pool' = [pool EXCEPT ![t] = @ \cup {a}]
               /\ hs' = Add(Handle(t, a, x))
               /\ last' = Op("newrc_miss", t, a)
    /\ ext' = ext
    /\ Running
    /\ UNCHANGED <<tls, panicked>>
    /\ UNCHANGED fvars

\* The caller builds an Rc<T> of its own (Rc::new, Rc::from).
RcNew(t, x) ==
    /\ Cardinality(ext) < MaxExt
    /\ \E a \in FreeAddr :
        /\ heap' = [heap EXCEPT ![a] = [strong |-> 1, value |-> x, ty |-> t]]
        /\ ext' = ext \cup {a}
        /\ last' = Op("rc_new", t, a)
    /\ UNCHANGED <<pool, hs>>
    /\ Running
    /\ UNCHANGED <<tls, panicked>>
    /\ UNCHANGED fvars

\* The caller drops its own Rc<T>.
RcDrop(a) ==
    /\ a \in ext
    /\ heap' = RcRelease(heap, a)
    /\ ext' = ext \ {a}
    /\ last' = Op("rc_drop", heap[a].ty, a)
    /\ UNCHANGED <<pool, hs>>
    /\ Running
    /\ UNCHANGED <<tls, panicked>>
    /\ UNCHANGED fvars

\* (mutation) a clone that copies the content into a buffer of its own.
CloneCopy(h) ==
    /\ h \in Live
    /\ Room
    /\ \E a \in FreeAddr :
        /\ heap' = [heap EXCEPT ![a] = [strong |-> 1, value |-> heap[h.ptr].value, ty |-> h.ty]]
        /\ hs' = Add(Handle(h.ty, a, h.src))
        /\ last' = Op("clone", h.ty, a)
    /\ UNCHANGED <<pool, ext>>
    /\ Running
    /\ UNCHANGED <<tls, panicked>>
    /\ UNCHANGED fvars

\* #[derive(Clone)]: Intern(Rc::clone(&self.0)).
Clone(h) ==
    /\ h \in Live
    /\ Room
    /\ heap' = RcClone(heap, h.ptr)
    /\ hs' = Add(h)
    /\ last' = Op("clone", h.ty, h.ptr)
    /\ UNCHANGED <<pool, ext>>
    /\ Running
    /\ UNCHANGED <<tls, panicked>>
    /\ UNCHANGED fvars

\* #[derive(Default)]: Intern(Rc::default()), i.e. Rc::new(T::default()); the
\* pool is not consulted.
Default(t) ==
    /\ HasDefault(t)
    /\ Room
    /\ \E a \in FreeAddr :
        /\ heap' = [heap EXCEPT ![a] = [strong |-> 1, value |-> DefaultValue(t), ty |-> t]]
        /\ hs' = Add(Handle(t, a, DefaultValue(t)))
        /\ last' = Op("default", t, a)
    /\ UNCHANGED <<pool, ext>>
    /\ Running
    /\ UNCHANGED <<tls, panicked>>
    /\ UNCHANGED fvars

\* The entries pool.remove(&self.0) takes out in Drop: none unless the strong
\* count is 2; HashSet::remove looks the entry up by content.
Evicted(h) == IF StrongCount(heap, h.ptr) = 2
              THEN PoolGet(heap, pool, h.ty, heap[h.ptr].value)
              ELSE {}

\* impl Drop for Intern<T>, then the drop of the field self.0.
Drop(h) ==
    /\ h \in Live
    /\ pool' = [pool EXCEPT ![h.ty] = @ \ Evicted(h)]
    /\ heap' = RcRelease(RcReleaseAll(heap, Evicted(h)), h.ptr)
    /\ hs' = Remove(h)
    /\ last' = Op("drop", h.ty, h.ptr)
    /\ UNCHANGED ext
    /\ tls[h.ty] = "alive" /\ ~panicked
    /\ UNCHANGED <<tls, panicked>>
    /\ UNCHANGED fvars

\* The entries pool.remove(&self.0) takes out when the handle h is dropped in
\* the heap hp with the pools pl.
EvictedIn(hp, pl, h) == IF StrongCount(hp, h.ptr) = 2
                        THEN PoolGet(hp, pl, h.ty, hp[h.ptr].value)
                        ELSE {}

\* The state after Intern::new(&buf) and then the drop of self, as add runs
\* them: r is the buffer of the result, hp and pl the heap and the pools when
\* Intern::new has returned.
AddFinish(a, other, r, hp, pl) ==
    /\ pool' = [pl EXCEPT !["str"] = @ \ EvictedIn(hp, pl, a)]
    /\ heap' = RcRelease(RcReleaseAll(hp, EvictedIn(hp, pl, a)), a.ptr)
    /\ hs' = Remove(a) (+) SetToBag({Handle("str", r, heap[a.ptr].value \o other)})
    /\ last' = [op |-> "add", ty |-> "str", ptr |-> r, from |-> a.ptr, arg |-> other]

\* impl Add<&str> for Intern<str>: buf is self's text followed by other;
\* Intern::new(&buf) makes the result, then self goes out of scope.
AddStr(a, other) ==
    /\ a \in Live /\ a.ty = "str"
    /\ Len(heap[a.ptr].value) + Len(other) <= MaxStrLen
    /\ LET x == heap[a.ptr].value \o other
           cached == PoolGet(heap, pool, "str", x)
       IN IF cached # {}
          THEN LET e == CHOOSE e \in cached : TRUE
               IN AddFinish(a, other, e, RcClone(heap, e), pool)
          ELSE \E f \in FreeAddr :
                  AddFinish(a, other, f,
                            [heap EXCEPT ![f] = [strong |-> 2, value |-> x, ty |-> "str"]],
                            [pool EXCEPT !["str"] = @ \cup {f}])
    /\ UNCHANGED ext
    /\ Running
    /\ UNCHANGED <<tls, panicked>>
    /\ UNCHANGED fvars

\* A call of deref / as_ref: a read.
DerefCall(h) ==
    /\ h \in Live
    /\ last' = Op("deref", h.ty, h.ptr)
    /\ UNCHANGED <<heap, pool, hs, ext>>
    /\ Running
    /\ UNCHANGED <<tls, panicked>>
    /\ UNCHANGED fvars

\* A call of a == b: Rc::ptr_eq reads the two pointers.
EqCall(a, b) ==
    /\ a \in Live /\ b \in Live /\ a.ty = b.ty
    /\ last' = Op(IF Eq(a, b) THEN "eq_true" ELSE "eq_false", a.ty, a.ptr)
    /\ UNCHANGED <<heap, pool, hs, ext>>
    /\ Running
    /\ UNCHANGED <<tls, panicked>>
    /\ UNCHANGED fvars

\* A call of a.cmp(&b): reads the two contents.
CmpCall(a, b) ==
    /\ a \in Live /\ b \in Live /\ a.ty = b.ty
    /\ last' = Op("cmp", a.ty, a.ptr)
    /\ UNCHANGED <<heap, pool, hs, ext>>
    /\ Running
    /\ UNCHANGED <<tls, panicked>>
    /\ UNCHANGED fvars

\* (mutation) hash without the Rc::from_raw that gives the reference back.
HashLeak(h) ==
    /\ h \in Live
    /\ heap' = RcClone(heap, h.ptr)
    /\ last' = Op("hash", h.ty, h.ptr)
    /\ UNCHANGED <<pool, hs, ext>>
    /\ Running
    /\ UNCHANGED <<tls, panicked>>
    /\ UNCHANGED fvars

\* A call of hash: Rc::into_raw(Rc::clone(&self.0)) takes one more reference,
\* Rc::from_raw(ptr) makes an Rc of it again, which is dropped at once.
HashCall(h) ==
    /\ h \in Live
    /\ heap' = RcRelease(RcClone(heap, h.ptr), h.ptr)
    /\ last' = Op("hash", h.ty, h.ptr)
    /\ UNCHANGED <<pool, hs, ext>>
    /\ Running
    /\ UNCHANGED <<tls, panicked>>
    /\ UNCHANGED fvars

\* Thread exit runs the destructor of the thread_local! POOL of type t: the
\* HashSet is dropped and with it the pool's Rc of every entry.  From then on
\* only destructors run (handles kept in other thread-locals are dropped).
Teardown(t) ==
    /\ tls[t] = "alive" /\ ~panicked
    /\ tls' = [tls EXCEPT ![t] = "destroyed"]
    /\ heap' = RcReleaseAll(heap, pool[t])
    /\ pool' = [pool EXCEPT ![t] = {}]
    /\ last' = Op("teardown", t, 0)
    /\ UNCHANGED <<hs, ext, panicked>>
    /\ UNCHANGED fvars

\* impl Drop for Intern<T> once POOL has been destroyed.  With a strong count
\* of 2 the code calls LocalKey::with on the destroyed key, which panics or,
\* where the platform creates the key anew, finds an empty set and removes
\* nothing; with any other count the pool is not touched.
DropAtExit(h) ==
    /\ h \in Live
    /\ tls[h.ty] = "destroyed" /\ ~panicked
    /\ \/ /\ StrongCount(heap, h.ptr) = 2
          /\ panicked' = TRUE
          /\ last' = Op("drop_panic", h.ty, h.ptr)
          /\ UNCHANGED <<heap, hs>>
       \/ /\ heap' = RcRelease(heap, h.ptr)
          /\ hs' = Remove(h)
          /\ last' = Op("drop", h.ty, h.ptr)
          /\ UNCHANGED panicked
    /\ UNCHANGED <<pool, ext, tls>>
    /\ UNCHANGED fvars

InternCore ==
    \/ \E t \in Types : \E x \in Values(t) : New(t, x)
    \/ \E h \in Live : Clone(h)
    \/ \E h \in Live : Drop(h)

RcInput ==
    \/ \E t \in RcTypes : \E x \in Values(t) : RcNew(t, x)
    \/ \E a \in Addr : NewFromRc(a)
    \/ \E a \in Addr : RcDrop(a)

InternNext ==
    \/ InternCore
    \/ RcInput
    \/ \E t \in Types : Default(t)

\* ============================================ handle::Handle and the facades
\* Content of at most this many bytes is stored inside the Handle itself.
INLINE_LIMIT == 15

\* The facades, one content type each: text, bytes, C string.
Kinds == {"IStr", "IBytes", "ICStr"}

\* n copies of the byte b.
Rep(b, n) == [i \in 1..n |-> b]

NoBuf == [holders |-> 0, bytes |-> <<>>]

\* The two representations of a Handle.
Inline(b) == [rep |-> "inline", bytes |-> b, ptr |-> 0]
Pooled(a) == [rep |-> "pooled", bytes |-> <<>>, ptr |-> a]

\* A facade value: IStr(Handle), IBytes(Handle) or ICStr(Handle), and (for the
\* checks only) the bytes its Handle was built from.
Facade(k, h, x) == [kind |-> k, h |-> h, src |-> x]

FLive == BagToSet(fs)
FRoom == BagCardinality(fs) < MaxHandles
FreeBuf == {a \in Addr : bufs[a] = NoBuf}
FAdd(v) == fs (+) SetToBag({v})
FRemove(v) == fs (-) SetToBag({v})

FOp(name, k, p, x, ok) == [op |-> name, kind |-> k, ptr |-> p, arg |-> x, ok |-> ok]

\* Handle::get: the content, whatever the representation.
HandleGet(bf, h) == IF h.rep = "inline" THEN h.bytes ELSE bf[h.ptr].bytes

\* Handle's equality: the same pooled buffer is equal at once; otherwise the
\* bytes are compared.
HandleEq(bf, a, b) ==
    IF a.rep = "pooled" /\ b.rep = "pooled" /\ a.ptr = b.ptr THEN TRUE
    ELSE HandleGet(bf, a) = HandleGet(bf, b)

\* Pool.get_or_insert's lookup: the entries whose stored bytes equal x.
HPoolGet(bf, p, x) == {e \in p : bf[e].bytes = x}

\* --------------------------------------------------- std::str::from_utf8
IsCont(b) == b >= 128 /\ b <= 191

RECURSIVE Utf8From(_, _)
Utf8From(s, i) ==
    IF i > Len(s) THEN TRUE
    ELSE LET b0 == s[i]
             has(n) == i + n <= Len(s)
             c(k) == IsCont(s[i + k])
         IN IF b0 <= 127 THEN Utf8From(s, i + 1)
            ELSE IF b0 >= 194 /\ b0 <= 223
                 THEN has(1) /\ c(1) /\ Utf8From(s, i + 2)
            ELSE IF b0 = 224
                 THEN has(2) /\ s[i + 1] >= 160 /\ s[i + 1] <= 191 /\ c(2)
                      /\ Utf8From(s, i + 3)
            ELSE IF (b0 >= 225 /\ b0 <= 236) \/ b0 = 238 \/ b0 = 239
                 THEN has(2) /\ c(1) /\ c(2) /\ Utf8From(s, i + 3)
            ELSE IF b0 = 237
                 THEN has(2) /\ s[i + 1] >= 128 /\ s[i + 1] <= 159 /\ c(2)
                      /\ Utf8From(s, i + 3)
            ELSE IF b0 = 240
                 THEN has(3) /\ s[i + 1] >= 144 /\ s[i + 1] <= 191 /\ c(2) /\ c(3)
                      /\ Utf8From(s, i + 4)
            ELSE IF b0 >= 241 /\ b0 <= 243
                 THEN has(3) /\ c(1) /\ c(2) /\ c(3) /\ Utf8From(s, i + 4)
            ELSE IF b0 = 244
                 THEN has(3) /\ s[i + 1] >= 128 /\ s[i + 1] <= 143 /\ c(2) /\ c(3)
                      /\ Utf8From(s, i + 4)
            ELSE FALSE

\* Ok exactly for well-formed UTF-8.
ValidUtf8(s) == Utf8From(s, 1)

\* ----------------------------------------------------------------- inputs
\* A 16-byte text ending in a two-byte character, and 16 bytes that are no
\* text (a lone continuation byte repeated).
LongText == Rep(97, INLINE_LIMIT - 1) \o <<195, 169>>
LongJunk == Rep(128, INLINE_LIMIT + 1)

\* Byte strings given to IBytes::new and IStr::from_utf8.
ByteInputs == {<<>>, <<128>>, Rep(97, INLINE_LIMIT), LongText, LongJunk}

\* Texts given to IStr::new: a &str is well-formed UTF-8.
StrInputs == {b \in ByteInputs : ValidUtf8(b)}

\* C strings given to ICStr::new, written without their terminator; a CStr
\* has no interior NUL.
CStrInputs == {<<>>, Rep(97, INLINE_LIMIT - 1), Rep(97, INLINE_LIMIT),
               Rep(128, INLINE_LIMIT)}

\* CStr::to_bytes_with_nul
ToBytesWithNul(c) == c \o <<0>>

FacadeInit ==
    /\ bufs = [a \in Addr |-> NoBuf]
    /\ hpool = [k \in Kinds |-> {}]
    /\ fs = EmptyBag
    /\ flast = FOp("init", "none", 0, <<>>, TRUE)

\* ------------------------------------------------------------------ Handle
\* (mutation) a threshold test that is off by one.
FitsInlineStrict(b) == Len(b) < INLINE_LIMIT

\* content.len() <= INLINE_LIMIT
FitsInline(b) == Len(b) <= INLINE_LIMIT

\* Handle::new(bytes), wrapped in the facade k by the constructor named name:
\* short content is stored inline, longer content goes through get-or-insert
\* of the pool of k's content type.
HandleNew(k, b, name) ==
    /\ FRoom
    /\ IF FitsInline(b)
       THEN /\ UNCHANGED <<bufs, hpool>>
            /\ fs' = FAdd(Facade(k, Inline(b), b))
            /\ flast' = FOp(name, k, 0, b, TRUE)
       ELSE LET cached == HPoolGet(bufs, hpool[k], b)
            IN IF cached # {}
               THEN LET e == CHOOSE e \in cached : TRUE
                    IN /\ bufs' = [bufs EXCEPT ![e].holders = @ + 1]
                       /\ hpool' = hpool
                       /\ fs' = FAdd(Facade(k, Pooled(e), b))
                       /\ flast' = FOp(name, k, e, b, TRUE)
               ELSE \E a \in FreeBuf :
                       /\ bufs' = [bufs EXCEPT ![a] = [holders |-> 2, bytes |-> b]]
                       /\ hpool' = [hpool EXCEPT ![k] = @ \cup {a}]
                       /\ fs' = FAdd(Facade(k, Pooled(a), b))
                       /\ flast' = FOp(name, k, a, b, TRUE)
    /\ UNCHANGED ivars

\* Handle::clone of v's handle, wrapped in the facade k: an inline handle is
\* copied, a pooled one gets one more holder of the same buffer.
HandleClone(k, v, name) ==
    /\ FRoom
    /\ bufs' = IF v.h.rep = "pooled"
               THEN [bufs EXCEPT ![v.h.ptr].holders = @ + 1]
               ELSE bufs
    /\ hpool' = hpool
    /\ fs' = FAdd(Facade(k, v.h, v.src))
    /\ flast' = FOp(name, k, v.h.ptr, HandleGet(bufs, v.h), TRUE)
    /\ UNCHANGED ivars

\* Handle's drop: a pooled handle gives up its holder; when only the pool's
\* own reference is left the entry is removed, by identity, from the pool that
\* holds it, and freed.
HandleDrop(v) ==
    /\ IF v.h.rep = "pooled"
       THEN IF bufs[v.h.ptr].holders - 1 <= 1
            THEN /\ bufs' = [bufs EXCEPT ![v.h.ptr] = NoBuf]
                 /\ hpool' = [k \in Kinds |-> hpool[k] \ {v.h.ptr}]
            ELSE /\ bufs' = [bufs EXCEPT ![v.h.ptr].holders = @ - 1]
                 /\ hpool' = hpool
       ELSE UNCHANGED <<bufs, hpool>>
    /\ fs' = FRemove(v)
    /\ flast' = FOp("drop", v.kind, v.h.ptr, HandleGet(bufs, v.h), TRUE)
    /\ UNCHANGED ivars

\* The call returns Err and touches nothing.
ReturnErr(name, k, x) ==
    /\ UNCHANGED <<bufs, hpool, fs>>
    /\ flast' = FOp(name, k, 0, x, FALSE)
    /\ UNCHANGED ivars

\* -------------------------------------------------------------------- IStr
IStr_new(s) == HandleNew("IStr", s, "IStr::new")

\* (mutation) the handle is built before the bytes are validated.
IStr_from_utf8_unchecked(b) == HandleNew("IStr", b, "IStr::from_utf8")

\* from_utf8(src).map(IStr::new)
IStr_from_utf8(b) ==
    IF ValidUtf8(b) THEN HandleNew("IStr", b, "IStr::from_utf8")
    ELSE ReturnErr("IStr::from_utf8", "IStr", b)

IStr_as_bytes(v) == HandleGet(bufs, v.h)

\* (mutation) a conversion that interns the bytes again in the target's pool.
IStr_to_ibytes_reintern(v) ==
    v.kind = "IStr" /\ HandleNew("IBytes", HandleGet(bufs, v.h), "IStr::to_ibytes")

\* IBytes(self.0.clone())
IStr_to_ibytes(v) == v.kind = "IStr" /\ HandleClone("IBytes", v, "IStr::to_ibytes")

\* IStr::new("")
IStr_default == HandleNew("IStr", <<>>, "IStr::default")

\* ------------------------------------------------------------------ IBytes
IBytes_new(b) == HandleNew("IBytes", b, "IBytes::new")

IBytes_as_bytes(v) == HandleGet(bufs, v.h)

\* IBytes::new(&b""[..])
IBytes_default == HandleNew("IBytes", <<>>, "IBytes::default")

\* ------------------------------------------------------------------- ICStr
\* (mutation) the handle is built from the bytes without the terminator.
ICStr_new_to_bytes(c) == HandleNew("ICStr", c, "ICStr::new")

\* ICStr(Handle::new(src.to_bytes_with_nul()))
ICStr_new(c) == HandleNew("ICStr", ToBytesWithNul(c), "ICStr::new")

ICStr_as_bytes_with_nul(v) == HandleGet(bufs, v.h)

\* &self.0.get()[..length - 1]
ICStr_as_bytes(v) == SubSeq(HandleGet(bufs, v.h), 1, Len(HandleGet(bufs, v.h)) - 1)

\* IBytes(self.0.clone())
ICStr_to_ibytes_with_nul(v) ==
    v.kind = "ICStr" /\ HandleClone("IBytes", v, "ICStr::to_ibytes_with_nul")

\* from_utf8(self.as_bytes()).map(|_| IStr(self.0.clone()))
ICStr_to_istr(v) ==
    /\ v.kind = "ICStr"
    /\ IF ValidUtf8(ICStr_as_bytes(v)) THEN HandleClone("IStr", v, "ICStr::to_istr")
       ELSE ReturnErr("ICStr::to_istr", "IStr", ICStr_as_bytes(v))

\* ICStr::new(Default::default()): the empty C string
ICStr_default == HandleNew("ICStr", ToBytesWithNul(<<>>), "ICStr::default")

\* ------------------------------------------------- derived Clone, and drop
FClone(v) == HandleClone(v.kind, v, "clone")

FDrop(v) == HandleDrop(v)

FacadeNext ==
    \/ \E s \in StrInputs : IStr_new(s)
    \/ \E b \in ByteInputs : IStr_from_utf8(b)
    \/ \E b \in ByteInputs : IBytes_new(b)
    \/ \E c \in CStrInputs : ICStr_new(c)
    \/ IStr_default
    \/ IBytes_default
    \/ ICStr_default
    \/ \E v \in FLive : IStr_to_ibytes(v)
    \/ \E v \in FLive : ICStr_to_ibytes_with_nul(v)
    \/ \E v \in FLive : ICStr_to_istr(v)
    \/ \E v \in FLive : FClone(v)
    \/ \E v \in FLive : FDrop(v)

\* ---------------------------------------------------------- specifications
Init == InternInit /\ FacadeInit

\* A program that uses Intern<T> (src/lib.rs).
Next == InternNext

Spec == Init /\ [][Next]_vars

\* The same program when it never calls Intern::default(): construct, clone
\* and drop only.
NextCore ==
    \/ InternCore
    \/ RcInput

SpecCore == Init /\ [][NextCore]_vars

\* A program that also reads, compares and hashes its handles.
Reads ==
    \/ \E h \in Live : DerefCall(h)
    \/ \E a \in Live : \E b \in Live : EqCall(a, b)
    \/ \E a \in Live : \E b \in Live : CmpCall(a, b)
    \/ \E h \in Live : HashCall(h)

NextRead ==
    \/ InternNext
    \/ Reads

SpecRead == Init /\ [][NextRead]_vars

\* The &str operands of +.
Suffixes == {<<>>, <<97>>}

\* A program that concatenates texts, some of them interned from an Rc<str>
\* the caller keeps.
NextAdd ==
    \/ InternCore
    \/ \E a \in Live : \E other \in Suffixes : AddStr(a, other)
    \/ \E x \in Values("str") : RcNew("str", x)
    \/ \E a \in Addr : NewFromRc(a)
    \/ \E a \in Addr : RcDrop(a)

SpecAdd == Init /\ [][NextAdd]_vars

\* A program that constructs, clones and drops handles and whose thread then
\* exits while handles are still alive.
NextExit ==
    \/ InternCore
    \/ \E t \in Types : Teardown(t)
    \/ \E h \in Live : DropAtExit(h)

SpecExit == Init /\ [][NextExit]_vars

\* A program that uses the facades IStr, IBytes and ICStr.
NextFacade == FacadeNext

SpecFacade == Init /\ [][NextFacade]_vars

\* ================================================================== claims
NewOps == {"new_hit", "new_miss", "newrc_hit", "newrc_miss"}

\* The buffers of type t that a handle or the pool references.
Buffers(t) == pool[t] \cup {h.ptr : h \in {g \in Live : g.ty = t}}

\* The live handles of type t whose content is x.
Holders(t, x) == {h \in Live : h.ty = t /\ Deref(h) = x}

\* C1 (identity uniqueness): with construct, clone and drop only, two live
\* handles of one type built from equal content point to the same buffer, and
\* no two distinct buffers referenced by a handle or by the pool of one type
\* hold equal content.
C1_IdentityUnique ==
    /\ \A a \in Live : \A b \in Live :
          (a.ty = b.ty /\ a.src = b.src) => a.ptr = b.ptr
    /\ \A t \in Types : \A a \in Buffers(t) : \A b \in Buffers(t) :
          heap[a].value = heap[b].value => a = b

\* A second construction from equal content has just reused the buffer.
C1_Witness ==
    /\ last.op = "new_hit"
    /\ \E h \in Live : h.ptr = last.ptr /\ CopiesIn(h, hs) >= 2

\* C2 (content equality <=> handle equality): two live handles of one type
\* compare equal (pointer comparison) exactly when their contents are equal.
C2_EqIffContent ==
    \A a \in Live : \A b \in Live :
        a.ty = b.ty => (Eq(a, b) <=> Deref(a) = Deref(b))

\* C3 (reference-counted cleanup): once no live handle references content x,
\* the pool of that type holds no entry for x.
C3_Cleanup ==
    \A t \in Types : \A x \in Values(t) :
        Holders(t, x) = {} => PoolGet(heap, pool, t, x) = {}

\* C4 (holder-count invariant): every buffer in a pool has strong count >= 2
\* and is referenced by at least one live handle.
C4_HolderCount ==
    \A t \in Types : \A e \in pool[t] :
        /\ StrongCount(heap, e) >= 2
        /\ \E h \in Live : h.ptr = e

\* C5 (hash/equality consistency): equal handles hash equally, and a handle
\* just constructed from the content of a live key k finds k in a hash map:
\* it hashes like k and compares equal to k.
C5_HashFindsKey ==
    /\ \A a \in Live : \A b \in Live : Eq(a, b) => Hash(a) = Hash(b)
    /\ last.op \in NewOps =>
          \A n \in Live : \A k \in Live :
              (n.ptr = last.ptr /\ k.ty = n.ty /\ Deref(k) = Deref(n))
                  => (Hash(n) = Hash(k) /\ Eq(n, k))

\* C6 (round trip): the bytes read back from a live handle are the content it
\* was constructed from, whatever was constructed or dropped since.
C6_RoundTrip == \A h \in Live : Deref(h) = h.src

\* A handle is still readable after another buffer was freed by a drop.
C6_Witness ==
    /\ last.op = "drop"
    /\ heap[last.ptr] = Free
    /\ \E h \in Live : Deref(h) = h.src /\ CopiesIn(h, hs) >= 2

\* C7 (clone does not re-copy): a clone step adds one handle on the source's
\* buffer, raises that buffer's strong count by exactly 1, allocates nothing
\* and leaves every pool as it was.
C7_CloneShares ==
    [][last'.op = "clone" =>
          /\ pool' = pool
          /\ ext' = ext
          /\ heap' = [heap EXCEPT ![last'.ptr].strong = @ + 1]
          /\ \E h \in Live : h.ptr = last'.ptr /\ hs' = Add(h)]_vars

\* A pooled handle has just been cloned: pool + source + clone.
C7_Witness ==
    /\ last.op = "clone"
    /\ last.ptr \in pool[last.ty]
    /\ StrongCount(heap, last.ptr) = 3

\* ------------------------------------------------------- facade claims
ConstructOps == {"IStr::new", "IStr::from_utf8", "IBytes::new", "ICStr::new",
                 "IStr::default", "IBytes::default", "ICStr::default"}

C9_ErrLeavesNoTrace ==
    [][(flast'.op \in {"IStr::from_utf8", "ICStr::to_istr"} /\ ~ValidUtf8(flast'.arg)) =>
          /\ flast'.ok = FALSE
          /\ UNCHANGED <<bufs, hpool, fs>>]_vars

\* IStr::from_utf8 has just refused bytes long enough to be pooled, with an
\* entry in the pool and a value alive.
C9_Witness ==
    /\ flast.op = "IStr::from_utf8"
    /\ flast.ok = FALSE
    /\ Len(flast.arg) > INLINE_LIMIT
    /\ hpool["IStr"] # {}
    /\ fs # EmptyBag

\* C10 (per-type namespaces): a value of one content type never references an
\* entry of another type's pool, and no buffer is shared by values of two
\* different content types.
C10_TypeNamespaces ==
    /\ \A v \in FLive : \A k \in Kinds \ {v.kind} :
          v.h.rep = "pooled" => v.h.ptr \notin hpool[k]
    /\ \A v \in FLive : \A w \in FLive :
          (v.h.rep = "pooled" /\ w.h.rep = "pooled" /\ v.kind # w.kind)
              => v.h.ptr # w.h.ptr

\* ----------------------------------------------------- thread exit
\* C11 (teardown safety): dropping handles after the thread's pool has been
\* torn down never panics.
C11_TeardownSafe == ~panicked

\* --------------------------------------------------- drop, construct, frame
\* C12 (no premature eviction): a drop step takes an entry out of a pool only
\* if that entry is the buffer of the dropped handle and no other live handle
\* references it; otherwise the pools are unchanged and the only effect on
\* the heap is one reference fewer on the dropped handle's buffer.
C12_NoPrematureEviction ==
    [][last'.op = "drop" =>
          LET p == last'.ptr
              t == last'.ty
              others == \E g \in BagToSet(hs') : g.ptr = p
          IN /\ \A u \in Types : pool'[u] \subseteq pool[u]
             /\ \A u \in Types : \A e \in pool[u] \ pool'[u] :
                    e = p /\ u = t /\ ~others
             /\ pool' = pool => heap' = RcRelease(heap, p)]_vars

\* C13 (get-or-insert step): a construction from content x that the pool
\* already holds leaves the pool as it was and raises that entry's strong
\* count by exactly 1; a construction from content the pool does not hold
\* adds exactly one entry, the new handle's buffer, whose strong count is
\* exactly 2.
C13_GetOrInsertStep ==
    [][last'.op \in NewOps =>
          LET p == last'.ptr
              t == last'.ty
              x == heap'[p].value
              cached == PoolGet(heap, pool, t, x)
          IN IF cached # {}
             THEN /\ pool' = pool
                  /\ p \in cached
                  /\ heap' = [heap EXCEPT ![p].strong = @ + 1]
             ELSE /\ p \notin pool[t]
                  /\ pool' = [pool EXCEPT ![t] = @ \cup {p}]
                  /\ StrongCount(heap', p) = 2]_vars

ReadOps == {"deref", "eq_true", "eq_false", "cmp", "hash"}

\* C14 (mutation discipline): the pools change only in a construction or a
\* drop; clone, deref, equality, ordering and hashing leave every pool as it
\* was, and deref, equality, ordering and hashing also leave every strong
\* count (the whole heap) and the live handles as they were.
C14_MutationDiscipline ==
    [][/\ pool' # pool => last'.op \in NewOps \cup {"drop"}
       /\ last'.op \in ReadOps \cup {"clone"} => pool' = pool
       /\ last'.op \in ReadOps => (heap' = heap /\ hs' = hs /\ ext' = ext)]_vars

\* A handle whose buffer is in the pool with only that handle on it (strong
\* count 2, the count Drop tests for) has just been hashed.
C14_Witness ==
    /\ last.op = "hash"
    /\ last.ptr \in pool[last.ty]
    /\ StrongCount(heap, last.ptr) = 2

\* ------------------------------------------------- facade conversions
ConvOps == {"IStr::to_ibytes", "ICStr::to_ibytes_with_nul", "ICStr::to_istr"}

\* The facade a conversion starts from.
ConvSource(name) == IF name = "IStr::to_ibytes" THEN "IStr" ELSE "ICStr"

C16_Terminator ==
    \A v \in FLive : v.kind = "ICStr" =>
        /\ Len(HandleGet(bufs, v.h)) >= 1
        /\ \E c \in CStrInputs :
              /\ ICStr_as_bytes_with_nul(v) = c \o <<0>>
              /\ ICStr_as_bytes(v) = c
              /\ \A i \in 1..Len(c) : c[i] # 0

\* The default ICStr has just been built while a pooled ICStr (INLINE_LIMIT
\* bytes and the terminator) is alive.
C16_Witness ==
    /\ flast.op = "ICStr::default"
    /\ \E d \in FLive : d.kind = "ICStr" /\ d.h = Inline(<<0>>)
    /\ \E v \in FLive :
          /\ v.kind = "ICStr" /\ v.h.rep = "pooled"
          /\ Len(ICStr_as_bytes(v)) = INLINE_LIMIT

\* ------------------------------------------------ ordering, backing, add
\* C17 (ordering consistent with equality): for two live handles of one type
\* cmp orders their contents lexicographically, and it answers Equal exactly
\* when the handles are equal (point to the same buffer).
C17_OrdConsistentWithEq ==
    \A a \in Live : \A b \in Live :
        a.ty = b.ty =>
            /\ Cmp(a, b) = LexCmp(Deref(a), Deref(b))
            /\ (Cmp(a, b) = "Equal" <=> Eq(a, b))

\* The number of live handles that reference the buffer at p.
RECURSIVE CountOn(_, _)
CountOn(S, p) ==
    IF S = {} THEN 0
    ELSE LET g == CHOOSE g \in S : TRUE
         IN (IF g.ptr = p THEN CopiesIn(g, hs) ELSE 0) + CountOn(S \ {g}, p)

\* C18 (every live handle is backed by the pool): the buffer of a live handle
\* is the entry its type's pool holds for that content, and its strong count
\* is 1 plus the number of live handles that reference it.
C18_BackedByPool ==
    \A h \in Live :
        /\ PoolGet(heap, pool, h.ty, Deref(h)) = {h.ptr}
        /\ StrongCount(heap, h.ptr) = 1 + CountOn(Live, h.ptr)

\* C19 (concatenation): a + s yields a handle whose content is a's content
\* followed by s and whose buffer is in the pool with strong count >= 2; a's
\* old entry is out of the pool exactly when a was the only handle on it and
\* the result's content differs from a's.
C19_Concatenation ==
    [][last'.op = "add" =>
          LET r == last'.ptr
              o == last'.from
              x == heap[o].value \o last'.arg
          IN /\ heap'[r].value = x
             /\ \E h \in BagToSet(hs') : h.ptr = r /\ h.ty = "str"
             /\ r \in pool'["str"]
             /\ StrongCount(heap', r) >= 2
             /\ (o \notin pool'["str"]) <=>
                    (CountOn(Live, o) = 1 /\ x # heap[o].value)]_vars

\* ------------------------------------------------- C string to text
\* C20 (C-string to text): ICStr::to_istr on the ICStr v answers Ok exactly
\* when v.as_bytes(), the C string without its terminator, is UTF-8, and the
\* bytes of the IStr it returns are v.as_bytes().
C20_ToIStr ==
    [][flast'.op = "ICStr::to_istr" =>
          IF flast'.ok
          THEN \E v \in FLive : \E n \in BagToSet(fs') :
                  /\ v.kind = "ICStr" /\ n.kind = "IStr"
                  /\ fs' = FAdd(n)
                  /\ n.h = v.h
                  /\ ValidUtf8(ICStr_as_bytes(v))
                  /\ HandleGet(bufs', n.h) = ICStr_as_bytes(v)
          ELSE /\ fs' = fs
               /\ \E v \in FLive :
                     /\ v.kind = "ICStr"
                     /\ ICStr_as_bytes(v) = flast'.arg
                     /\ ~ValidUtf8(ICStr_as_bytes(v))]_vars

====
